---- MODULE Spec2Model ----
(***************************************************************************)
(* hash_funsies: the voxel chunk key packing of src/lib.rs and the two     *)
(* hand-written hashers of benches/bench.rs (IdentityHasher, FibHasher).   *)
(*                                                                         *)
(* Number representation.  TLC's integers are 32 bits wide, so the Rust    *)
(* u32 and u64 values are kept digit by digit:                             *)
(*   - a u32 is a function 0..31 -> {0,1}, bit i having weight 2^i;        *)
(*   - a u64 is a tuple of 8 base-256 digits, least significant first      *)
(*     (digit d[i] has weight 256^(i-1));                                  *)
(*   - a byte slice is a tuple of bytes in memory order.                   *)
(***************************************************************************)
EXTENDS Integers, Sequences, FiniteSets

VARIABLES
    \* ---- src/lib.rs: two calls of VoxelChunkIndex::from_coords
    ina, inb,        \* the two coordinate triples <<x, y, z>> handed in
    keya, keyb,      \* the packed keys returned (NoKey until computed)
    kpc,             \* how many of the two calls have returned
    \* ---- benches/bench.rs: one IdentityHasher and one FibHasher<N>
    overflowChecks,  \* build setting: does u64 `+=` panic on overflow?
    fibN,            \* the const generic N of FibHasher<N>
    phase,           \* "start", "live", "dead", "finished"
    idAcc, idStatus, \* IdentityHasher.0 and whether the object is usable
    fibAcc, fibStatus, \* FibHasher.hash and the outcome of construction/calls
    idPrev, fibPrev, \* the accumulators before the last call
    log,             \* the calls made so far, in order
    writesLeft,      \* calls the driver may still make
    idDigest, fibDigest  \* results of finish()

keyVars == <<ina, inb, keya, keyb, kpc>>
hashVars == <<overflowChecks, fibN, phase, idAcc, idStatus, fibAcc, fibStatus,
              idPrev, fibPrev, log, writesLeft, idDigest, fibDigest>>
vars == <<keyVars, hashVars>>

\* ------------------------------------------------------------------ bounds
\* Coordinates are drawn this far around each field's edges and around 0.
CoordSpan == 1
\* Longest byte slice handed to write() (besides the 64-byte one).
MaxLen == 17
\* Calls made on one pair of hashers before finish().
MaxCalls == 2

\* ================================================================ src/lib.rs
X_BITS == 13
Y_BITS == 13
Z_BITS == 6

X_BIAS == 2^(X_BITS - 1)
Y_BIAS == 2^(Y_BITS - 1)
Z_BIAS_doubled == 2^Z_BITS
Z_BIAS == 2^(Z_BITS - 1)

X_SHIFT == 0
Y_SHIFT_overlap == X_BITS - 1
Y_SHIFT == X_BITS
Z_SHIFT == X_BITS + Y_BITS

\* `v as u32` for an i32 v: the two's complement bit pattern.
AsU32(v) ==
    [i \in 0..31 |-> IF i = 31 THEN (IF v < 0 THEN 1 ELSE 0)
                     ELSE (v \div 2^i) % 2]

\* u32 `<<` by s < 32: the bits shifted out at the top are lost.
Shl32(b, s) == [i \in 0..31 |-> IF i >= s THEN b[i - s] ELSE 0]

\* u32 `|`.
Or32(a, b) == [i \in 0..31 |-> IF a[i] = 1 \/ b[i] = 1 THEN 1 ELSE 0]

\* VoxelChunkIndex::from_coords.  (x + X_BIAS is an i32 addition; the inputs
\* drawn below stay far from the i32 limits, so it never overflows here.)
from_coords(x, y, z) ==
    LET xf == Shl32(AsU32(x + X_BIAS), X_SHIFT)
        yf == Shl32(AsU32(y + Y_BIAS), Y_SHIFT)
        zf == Shl32(AsU32(z + Z_BIAS), Z_SHIFT)
    IN  Or32(zf, Or32(yf, xf))

NoKey == <<>>

\* The coordinates the caller hands in: both edges of every field, the
\* neighbourhood of 0, and the first value above the x and z ranges.
XVals == ((0 - X_BIAS)..(CoordSpan - X_BIAS)) \cup ((0 - CoordSpan)..CoordSpan)
           \cup ((X_BIAS - 1 - CoordSpan)..X_BIAS)
YVals == {0 - Y_BIAS, Y_BIAS - 1} \cup ((0 - CoordSpan)..CoordSpan)
ZVals == {0 - Z_BIAS, 0, Z_BIAS - 1, Z_BIAS}
Triples == {<<x, y, z>> : x \in XVals, y \in YVals, z \in ZVals}

\* The state of the hashers while only the key packing runs.
HashIdle ==
    /\ overflowChecks = FALSE /\ fibN = 0 /\ phase = "start"
    /\ idAcc = <<>> /\ idStatus = "none" /\ fibAcc = <<>> /\ fibStatus = "none"
    /\ idPrev = <<>> /\ fibPrev = <<>> /\ log = <<>> /\ writesLeft = 0
    /\ idDigest = <<>> /\ fibDigest = <<>>

InitKey ==
    /\ ina \in Triples /\ inb \in Triples
    /\ keya = NoKey /\ keyb = NoKey /\ kpc = 0
    /\ HashIdle

\* let a = VoxelChunkIndex::from_coords(x, y, z);
EncodeA ==
    /\ kpc = 0
    /\ keya' = from_coords(ina[1], ina[2], ina[3])
    /\ kpc' = 1
    /\ UNCHANGED <<ina, inb, keyb, hashVars>>

\* let b = VoxelChunkIndex::from_coords(x, y, z);
EncodeB ==
    /\ kpc = 1
    /\ keyb' = from_coords(inb[1], inb[2], inb[3])
    /\ kpc' = 2
    /\ UNCHANGED <<ina, inb, keya, hashVars>>

NextKey == EncodeA \/ EncodeB

SpecKey == InitKey /\ [][NextKey]_vars

\* ---------------------------------------------------------- claims C1, C2
\* The unsigned number held by bits [lo, lo+n) of a packed key.
RECURSIVE Field(_, _, _)
Field(key, lo, n) == IF n = 0 THEN 0 ELSE key[lo] + 2 * Field(key, lo + 1, n - 1)

InRange(t) ==
    /\ t[1] \in (0 - 4096)..4095
    /\ t[2] \in (0 - 4096)..4095
    /\ t[3] \in (0 - 32)..31

\* (32 << 26) | (4096 << 13) | 4096 = 2^31 + 2^25 + 2^12
OriginKey == [i \in 0..31 |-> IF i \in {12, 25, 31} THEN 1 ELSE 0]

Decodes(t, key) ==
    /\ Field(key, 0, 13) - 4096 = t[1]
    /\ Field(key, 13, 13) - 4096 = t[2]
    /\ Field(key, 26, 6) - 32 = t[3]
    /\ (t = <<0, 0, 0>> => key = OriginKey)

\* C1: for in-range (x, y, z) the key returned by from_coords holds x+4096 in
\* bits [0,13), y+4096 in bits [13,26) and z+32 in bits [26,32), so masking
\* each field out and subtracting its bias gives back (x, y, z); and
\* from_coords(0,0,0) = (32 << 26) | (4096 << 13) | 4096.
C1_RoundTrip ==
    /\ (kpc >= 1 /\ InRange(ina)) => Decodes(ina, keya)
    /\ (kpc = 2 /\ InRange(inb)) => Decodes(inb, keyb)

C1_Witness ==
    /\ kpc = 2
    /\ ina = <<0, 0, 0>> /\ keya = OriginKey
    /\ inb = <<0 - 4096, 4095, 0 - 32>> /\ Decodes(inb, keyb)

\* C2: on the valid range two packed keys are equal exactly when the
\* coordinate triples they were made from are equal.
C2_Injective ==
    (kpc = 2 /\ InRange(ina) /\ InRange(inb)) => ((keya = keyb) <=> (ina = inb))

C2_Witness ==
    /\ kpc = 2 /\ InRange(ina) /\ InRange(inb)
    /\ ina # inb /\ ina[1] = inb[1] /\ ina[3] = inb[3]
    /\ keya # keyb

\* Outside the valid range the packing does collide (x = 4096 spills into
\* the y field, z = 32 loses its top bit and packs as z = -32 does): the
\* range in C2 is needed.
KeyCollisionOutOfRange ==
    /\ kpc = 2 /\ ina # inb /\ keya = keyb

\* ======================================================= benches/bench.rs
\* ------------------------------------------------ u64 and byte-slice helpers
U128SIZE == 16
U64SIZE == 8
U32SIZE == 4
U16SIZE == 2
U8SIZE == 1

\* A u64 from a digit function on 1..8 (least significant digit first).
U64Of(d) == <<d[1], d[2], d[3], d[4], d[5], d[6], d[7], d[8]>>

Zero64 == <<0, 0, 0, 0, 0, 0, 0, 0>>

\* uN::from_be_bytes: the first byte of the array is the most significant
\* digit.  The result has as many digits as the array has bytes.
from_be_bytes(b) == [i \in 1..Len(b) |-> b[Len(b) + 1 - i]]

\* `v as u64` for an unsigned v of 1, 2, 4 or 8 digits: zero-extension.
AsU64(v) == U64Of([i \in 1..8 |-> IF i <= Len(v) THEN v[i] ELSE 0])

\* Carry into digit i of a + b.
RECURSIVE CarryIn(_, _, _)
CarryIn(a, b, i) ==
    IF i = 1 THEN 0 ELSE (a[i - 1] + b[i - 1] + CarryIn(a, b, i - 1)) \div 256

\* u64::wrapping_add.
wrapping_add(a, b) == U64Of([i \in 1..8 |-> (a[i] + b[i] + CarryIn(a, b, i)) % 256])

\* Whether a + b exceeds u64::MAX.
AddOverflows(a, b) == a[8] + b[8] + CarryIn(a, b, 8) >= 256

Ok(v) == [panic |-> FALSE, val |-> v]
Panic == [panic |-> TRUE, val |-> <<>>]

\* `a += b` on u64: with overflow checks compiled in (debug, test) an
\* overflow panics; without them (release, bench) the sum wraps.
AddAssign(a, b, oc) ==
    IF oc /\ AddOverflows(a, b) THEN Panic ELSE Ok(wrapping_add(a, b))

\* u64::wrapping_mul: schoolbook product of the digits, the digits of weight
\* 256^8 and above dropped.
RECURSIVE MulCol(_, _, _, _)
MulCol(a, b, k, i) ==
    IF i = 0 THEN 0 ELSE a[i] * b[k + 1 - i] + MulCol(a, b, k, i - 1)

RECURSIVE MulAcc(_, _, _)
MulAcc(a, b, k) ==
    MulCol(a, b, k, k) + (IF k = 1 THEN 0 ELSE MulAcc(a, b, k - 1) \div 256)

wrapping_mul(a, b) == U64Of([k \in 1..8 |-> MulAcc(a, b, k) % 256])

\* u64 `>>` by 0 <= s <= 63 (logical).
Shr64(v, s) ==
    LET q == s \div 8
        r == s % 8
        D(j) == IF j <= 8 THEN v[j] ELSE 0
    IN  U64Of([i \in 1..8 |->
            (D(i + q) \div 2^r) + (D(i + q + 1) % 2^r) * 2^(8 - r)])

\* for chunk in <the first k 8-byte chunks of bytes> {
\*     sum += u64::from_be_bytes(chunk.try_into().unwrap()); }
\* starting from sum = 0: the loop's final sum, or its panic.
RECURSIVE SumChunks(_, _, _)
SumChunks(bytes, k, oc) ==
    IF k = 0 THEN Ok(Zero64)
    ELSE LET s == SumChunks(bytes, k - 1, oc)
             chunk == SubSeq(bytes, U64SIZE * (k - 1) + 1, U64SIZE * k)
         IN  IF s.panic THEN Panic
             ELSE AddAssign(s.val, AsU64(from_be_bytes(chunk)), oc)

\* ------------------------------------------------------------ IdentityHasher
\* #[derive(Default)] struct IdentityHasher(u64);
IdentityHasher_default == Zero64

IdentityHasher_finish(acc) == acc

\* The result of write(): the new accumulator, or a panic.
IdentityHasher_write(acc, bytes, oc) ==
    LET n == Len(bytes)
        m == IF n = U64SIZE THEN Ok(AsU64(from_be_bytes(bytes)))
             ELSE IF n = U32SIZE THEN Ok(AsU64(from_be_bytes(bytes)))
             ELSE IF n = U16SIZE THEN Ok(AsU64(from_be_bytes(bytes)))
             ELSE IF n = U8SIZE THEN Ok(AsU64(from_be_bytes(bytes)))
             ELSE IF n = U128SIZE THEN SumChunks(bytes, 2, oc)
             ELSE
               LET q == n \div U64SIZE
                   sum == SumChunks(bytes, q, oc)
                   rem == SubSeq(bytes, U64SIZE * q + 1, n)
                   k == Len(rem)
                   \* 0-based indices of ((U64SIZE - k)..(U64SIZE - 1)).rev()
                   idx == {i \in 0..7 : U64SIZE - k <= i /\ i < U64SIZE - 1}
                   \* result[i] = bytes[i] (0-based), as a memory-order array
                   result == [j \in 1..8 |-> IF (j - 1) \in idx THEN rem[j] ELSE 0]
               IN  IF sum.panic THEN Panic
                   ELSE IF \E i \in idx : i >= k THEN Panic
                   ELSE AddAssign(sum.val, AsU64(from_be_bytes(result)), oc)
    IN  IF m.panic THEN Panic ELSE AddAssign(acc, m.val, oc)

IdentityHasher_write_u8(acc, i, oc) == AddAssign(acc, AsU64(i), oc)
IdentityHasher_write_u16(acc, i, oc) == AddAssign(acc, AsU64(i), oc)
IdentityHasher_write_u32(acc, i, oc) == AddAssign(acc, AsU64(i), oc)
IdentityHasher_write_u64(acc, i, oc) == AddAssign(acc, i, oc)

\* ---------------------------------------------------------------- FibHasher
\* The const generic N is a u8.
U8_MAX == 255

\* const SHIFT: u8 = 64 - N;  evaluating it fails when 64 - N leaves u8.
SHIFT_overflows(N) == 64 - N < 0
SHIFT(N) == 64 - N

\* 11400714819323198485 = 0x9E37_79B9_7F4A_7C15
FIB_MULT == <<21, 124, 74, 127, 185, 121, 55, 158>>

\* <FibHasher<N> as Default>::default(): what construction ends in.
FibHasher_default_lax(N) ==
    IF SHIFT_overflows(N) THEN [status |-> "const_error", hash |-> <<>>]
    ELSE IF ~(SHIFT(N) <= 64) THEN [status |-> "assert_panic", hash |-> <<>>]
    ELSE [status |-> "ok", hash |-> Zero64]

FibHasher_default_strict(N) ==
    IF SHIFT_overflows(N) THEN [status |-> "const_error", hash |-> <<>>]
    ELSE IF ~(SHIFT(N) > 0 /\ SHIFT(N) < 64)
         THEN [status |-> "assert_panic", hash |-> <<>>]
    ELSE [status |-> "ok", hash |-> Zero64]

FibHasher_default(N) ==
    IF SHIFT_overflows(N) THEN [status |-> "const_error", hash |-> <<>>]
    ELSE IF ~(SHIFT(N) < 64) THEN [status |-> "assert_panic", hash |-> <<>>]
    ELSE [status |-> "ok", hash |-> Zero64]

FibHasher_finish_shift_n(hash, N) == Shr64(wrapping_mul(hash, FIB_MULT), N % 64)

FibHasher_finish(hash, N) == Shr64(wrapping_mul(hash, FIB_MULT), SHIFT(N))

\* FibHasher::write with the tail of an irregular length left out.
FibHasher_write_no_tail(hash, bytes, oc) ==
    LET n == Len(bytes)
        m == IF n \in {U64SIZE, U32SIZE, U16SIZE, U8SIZE}
             THEN Ok(AsU64(from_be_bytes(bytes)))
             ELSE SumChunks(bytes, n \div U64SIZE, oc)
    IN  IF m.panic THEN Panic ELSE AddAssign(hash, m.val, oc)

FibHasher_write(hash, bytes, oc) ==
    LET n == Len(bytes)
        m == IF n = U64SIZE THEN Ok(AsU64(from_be_bytes(bytes)))
             ELSE IF n = U32SIZE THEN Ok(AsU64(from_be_bytes(bytes)))
             ELSE IF n = U16SIZE THEN Ok(AsU64(from_be_bytes(bytes)))
             ELSE IF n = U8SIZE THEN Ok(AsU64(from_be_bytes(bytes)))
             ELSE IF n = U128SIZE THEN SumChunks(bytes, 2, oc)
             ELSE
               LET q == n \div U64SIZE
                   sum == SumChunks(bytes, q, oc)
                   rem == SubSeq(bytes, U64SIZE * q + 1, n)
                   k == Len(rem)
                   idx == {i \in 0..7 : U64SIZE - k <= i /\ i < U64SIZE - 1}
                   result == [j \in 1..8 |-> IF (j - 1) \in idx THEN rem[j] ELSE 0]
               IN  IF sum.panic THEN Panic
                   ELSE IF \E i \in idx : i >= k THEN Panic
                   ELSE AddAssign(sum.val, AsU64(from_be_bytes(result)), oc)
    IN  IF m.panic THEN Panic ELSE AddAssign(hash, m.val, oc)

FibHasher_write_u8(hash, i, oc) == AddAssign(hash, AsU64(i), oc)
FibHasher_write_u16(hash, i, oc) == AddAssign(hash, AsU64(i), oc)
FibHasher_write_u32(hash, i, oc) == AddAssign(hash, AsU64(i), oc)
FibHasher_write_u64(hash, i, oc) == AddAssign(hash, i, oc)

\* const FIB_SIZE: u8 = 20;  the width the benchmarks instantiate.
FIB_SIZE == 20

\* ------------------------------------------------------- the driver's inputs
\* Byte slices: every length up to MaxLen and the 64-byte one, filled either
\* with 1, 2, 3, ... (every position distinct) or with 0xFF (to overflow).
Fills == {"ramp", "ones"}
MkSlice(n, f) == [i \in 1..n |-> IF f = "ramp" THEN i ELSE 255]
Slices == {MkSlice(n, f) : n \in (0..MaxLen) \cup {64}, f \in Fills}

\* Arguments of write_u8/u16/u32/u64, as w digits: 1, 2, 0x0102.., 0xFF..FF.
SmallInt(w, v) == [i \in 1..w |-> IF i = 1 THEN v ELSE 0]
IntArgs(w) ==
    {SmallInt(w, 1), SmallInt(w, 2)} \cup {from_be_bytes(MkSlice(w, f)) : f \in Fills}

KeyIdle ==
    /\ ina = <<0, 0, 0>> /\ inb = <<0, 0, 0>>
    /\ keya = NoKey /\ keyb = NoKey /\ kpc = 0

\* Any build setting and any N: u8.  The width the benchmarks use gets
\* MaxCalls calls per hasher, every other width one call (as hash_one makes).
InitHash ==
    /\ KeyIdle
    /\ overflowChecks \in BOOLEAN
    /\ fibN \in 0..U8_MAX
    /\ phase = "start"
    /\ idAcc = <<>> /\ idStatus = "none" /\ fibAcc = <<>> /\ fibStatus = "none"
    /\ idPrev = <<>> /\ fibPrev = <<>> /\ log = <<>>
    /\ writesLeft = (IF fibN = FIB_SIZE THEN MaxCalls ELSE 1)
    /\ idDigest = <<>> /\ fibDigest = <<>>

\* IdentityHasher::default() and FibHasher::<N>::default().  When SHIFT cannot
\* be evaluated the program is rejected and neither hasher exists; when the
\* assertion fails the FibHasher is never returned.
Construct ==
    /\ phase = "start"
    /\ LET f == FibHasher_default(fibN)
       IN  /\ fibStatus' = f.status
           /\ fibAcc' = f.hash
           /\ idStatus' = (IF f.status = "const_error" THEN "none" ELSE "ok")
           /\ idAcc' = (IF f.status = "const_error" THEN <<>> ELSE IdentityHasher_default)
           /\ phase' = (IF f.status = "ok" THEN "live" ELSE "dead")
    /\ UNCHANGED <<keyVars, overflowChecks, fibN, idPrev, fibPrev, log,
                   writesLeft, idDigest, fibDigest>>

\* One call made on both hashers; ri and rf are what it did to each.  A panic
\* leaves the accumulator as it was and ends the run.
Apply(op, arg, ri, rf) ==
    /\ log' = Append(log, [op |-> op, arg |-> arg])
    /\ idPrev' = idAcc /\ fibPrev' = fibAcc
    /\ idAcc' = (IF ri.panic THEN idAcc ELSE ri.val)
    /\ idStatus' = (IF ri.panic THEN "panic" ELSE "ok")
    /\ fibAcc' = (IF rf.panic THEN fibAcc ELSE rf.val)
    /\ fibStatus' = (IF rf.panic THEN "panic" ELSE "ok")
    /\ phase' = (IF ri.panic \/ rf.panic THEN "dead" ELSE "live")
    /\ writesLeft' = writesLeft - 1
    /\ UNCHANGED <<keyVars, overflowChecks, fibN, idDigest, fibDigest>>

CanCall == phase = "live" /\ writesLeft > 0

Write ==
    /\ CanCall
    /\ \E b \in Slices :
          Apply("write", b, IdentityHasher_write(idAcc, b, overflowChecks),
                FibHasher_write(fibAcc, b, overflowChecks))

WriteU8 ==
    /\ CanCall
    /\ \E i \in IntArgs(U8SIZE) :
          Apply("write_u8", i, IdentityHasher_write_u8(idAcc, i, overflowChecks),
                FibHasher_write_u8(fibAcc, i, overflowChecks))

WriteU16 ==
    /\ CanCall
    /\ \E i \in IntArgs(U16SIZE) :
          Apply("write_u16", i, IdentityHasher_write_u16(idAcc, i, overflowChecks),
                FibHasher_write_u16(fibAcc, i, overflowChecks))

WriteU32 ==
    /\ CanCall
    /\ \E i \in IntArgs(U32SIZE) :
          Apply("write_u32", i, IdentityHasher_write_u32(idAcc, i, overflowChecks),
                FibHasher_write_u32(fibAcc, i, overflowChecks))

WriteU64 ==
    /\ CanCall
    /\ \E i \in IntArgs(U64SIZE) :
          Apply("write_u64", i, IdentityHasher_write_u64(idAcc, i, overflowChecks),
                FibHasher_write_u64(fibAcc, i, overflowChecks))

\* finish(&self) on both hashers.
Finish ==
    /\ phase = "live"
    /\ idDigest' = IdentityHasher_finish(idAcc)
    /\ fibDigest' = FibHasher_finish(fibAcc, fibN)
    /\ phase' = "finished"
    /\ UNCHANGED <<keyVars, overflowChecks, fibN, idAcc, idStatus, fibAcc,
                   fibStatus, idPrev, fibPrev, log, writesLeft>>

NextHash ==
    \/ Construct
    \/ Write
    \/ WriteU8
    \/ WriteU16
    \/ WriteU32
    \/ WriteU64
    \/ Finish

SpecHash == InitHash /\ [][NextHash]_vars

\* ------------------------------------------------- reference arithmetic
\* What the claims speak of, computed apart from the operators above.

\* A slice of at most 8 bytes read as a big-endian unsigned integer: its
\* last byte has weight 1, the one before weight 256, ...
RefBE(b) ==
    LET n == Len(b)
    IN  U64Of([i \in 1..8 |-> IF i <= n THEN b[n + 1 - i] ELSE 0])

\* An unsigned integer of fewer digits, as a 64-bit number.
RefWiden(v) == U64Of([i \in 1..8 |-> IF i \in DOMAIN v THEN v[i] ELSE 0])

\* Sum modulo 2^64 of the first k 8-byte chunks, each read big-endian.
RECURSIVE RefChunkSum(_, _)
RefChunkSum(b, k) ==
    IF k = 0 THEN Zero64
    ELSE wrapping_add(RefChunkSum(b, k - 1), RefBE(SubSeq(b, 8 * k - 7, 8 * k)))

\* Every full 8-byte chunk plus the tail of Len(b) % 8 bytes right-aligned in
\* a zeroed 8-byte buffer, i.e. the tail read as a big-endian integer.
RefGeneral(b) ==
    LET q == Len(b) \div 8
    IN  wrapping_add(RefChunkSum(b, q), RefBE(SubSeq(b, 8 * q + 1, Len(b))))

\* The sum modulo 2^64 of the arguments of the first n calls of a log.
RECURSIVE RefTotal(_, _)
RefTotal(l, n) ==
    IF n = 0 THEN Zero64 ELSE wrapping_add(RefTotal(l, n - 1), RefWiden(l[n].arg))

\* v * m modulo 2^64 for a multiplier m of at most five decimal digits.
RECURSIVE SmallCarry(_, _, _)
SmallCarry(v, m, i) ==
    IF i = 1 THEN 0 ELSE (v[i - 1] * m + SmallCarry(v, m, i - 1)) \div 256

SmallMul(v, m) == U64Of([i \in 1..8 |-> (v[i] * m + SmallCarry(v, m, i)) % 256])

\* 11400714819323198485 in groups of five decimal digits.
FibDecimal == <<11400, 71481, 93231, 98485>>

\* a * (the number written by the first j groups of FibDecimal) mod 2^64.
RECURSIVE RefMulDec(_, _)
RefMulDec(a, j) ==
    IF j = 0 THEN Zero64
    ELSE wrapping_add(SmallMul(RefMulDec(a, j - 1), 100000), SmallMul(a, FibDecimal[j]))

\* (a * 11400714819323198485) mod 2^64
RefFibProduct(a) == RefMulDec(a, Len(FibDecimal))

\* Bit i (weight 2^i) of a u64.
Bit(v, i) == (v[(i \div 8) + 1] \div 2^(i % 8)) % 2

\* d = p >> (64 - n): bit i of d is bit i + 64 - n of p, and d < 2^n.
IsShiftedBy64Minus(d, p, n) ==
    \A i \in 0..63 : Bit(d, i) = (IF i < n THEN Bit(p, i + 64 - n) ELSE 0)

LastCall == log[Len(log)]
Called(op) == log # <<>> /\ LastCall.op = op
IntCallsOnly == \A i \in 1..Len(log) : log[i].op # "write"
One64 == <<1, 0, 0, 0, 0, 0, 0, 0>>

\* write_uN(v) on the accumulator acc, for the v with v.to_be_bytes() = b,
\* on the IdentityHasher (id) or on the FibHasher.
MatchingWriteU(acc, b, id) ==
    LET v == from_be_bytes(b)
        oc == overflowChecks
    IN  CASE Len(b) = 1 -> IF id THEN IdentityHasher_write_u8(acc, v, oc)
                           ELSE FibHasher_write_u8(acc, v, oc)
          [] Len(b) = 2 -> IF id THEN IdentityHasher_write_u16(acc, v, oc)
                           ELSE FibHasher_write_u16(acc, v, oc)
          [] Len(b) = 4 -> IF id THEN IdentityHasher_write_u32(acc, v, oc)
                           ELSE FibHasher_write_u32(acc, v, oc)
          [] Len(b) = 8 -> IF id THEN IdentityHasher_write_u64(acc, v, oc)
                           ELSE FibHasher_write_u64(acc, v, oc)

\* ------------------------------------------------------------------ claims
\* C3: write(bytes) on IdentityHasher and on FibHasher completes for a slice
\* of any length: it never panics and never indexes outside the slice.
C3_WriteIsTotal ==
    Called("write") => (idStatus = "ok" /\ fibStatus = "ok")

\* C4: for a slice whose length is not 1, 2, 4, 8 or 16, write adds to the
\* accumulator the sum of every full 8-byte big-endian chunk plus the k-byte
\* tail right-aligned in a zeroed 8-byte buffer and read big-endian.
C4_IrregularLengthSum ==
    (Called("write") /\ Len(LastCall.arg) \notin {1, 2, 4, 8, 16}) =>
        /\ idStatus = "ok" /\ fibStatus = "ok"
        /\ idAcc = wrapping_add(idPrev, RefGeneral(LastCall.arg))
        /\ fibAcc = wrapping_add(fibPrev, RefGeneral(LastCall.arg))

\* C5 as stated: constructing FibHasher<N> with N >= 64 fails fatally and
\* never yields a usable hasher.
C5_FailsFrom64 ==
    (phase # "start" /\ fibN >= 64) =>
        (fibStatus \in {"const_error", "assert_panic"} /\ phase = "dead")

\* C5 as amended: constructing FibHasher<N> with N >= 65 never yields a
\* hasher (SHIFT = 64 - N cannot be evaluated in u8); with N = 64 SHIFT is 0,
\* the assertion passes, construction yields a hasher with accumulator 0 and
\* its finish() shifts by zero, returning the whole product.
C5_FailsFrom65 ==
    /\ (phase # "start" /\ fibN >= 65) =>
          /\ fibStatus = "const_error" /\ phase = "dead"
          /\ fibAcc = <<>> /\ log = <<>> /\ fibDigest = <<>>
    /\ (phase # "start" /\ fibN = 64) =>
          /\ fibStatus \in {"ok", "panic"}
          /\ log = <<>> => (fibStatus = "ok" /\ fibAcc = Zero64)
          /\ phase = "finished" => fibDigest = RefFibProduct(fibAcc)

C5_Witness ==
    /\ fibN = 64 /\ phase = "finished" /\ fibStatus = "ok"
    /\ fibAcc = One64
    /\ fibDigest = FIB_MULT

\* C6: for 1 <= N <= 63 finish() returns ((a * 11400714819323198485) mod
\* 2^64) >> (64 - N) for the accumulator a, a digest in [0, 2^N - 1].
C6_FinishShifts ==
    (phase = "finished" /\ fibN \in 1..63) =>
        IsShiftedBy64Minus(fibDigest, RefFibProduct(fibAcc), fibN)

\* N = 4, accumulator 1: the digest is 0x9E37... >> 60 = 9, within [0, 15].
C6_Witness ==
    /\ phase = "finished" /\ fibN = 4
    /\ fibAcc = One64
    /\ fibDigest = <<9, 0, 0, 0, 0, 0, 0, 0>>

\* C7: after any sequence of write_u8/u16/u32/u64 calls on a fresh
\* IdentityHasher the accumulator is the sum of the written values modulo
\* 2^64 (the addition wraps, it does not fail), and finish() returns it.
C7_IntSumWraps ==
    (idStatus # "none" /\ IntCallsOnly) =>
        /\ idStatus = "ok"
        /\ idAcc = RefTotal(log, Len(log))
        /\ phase = "finished" => idDigest = RefTotal(log, Len(log))

\* C8: a slice of exactly 1, 2, 4 or 8 bytes adds the slice read as a
\* big-endian integer, as the matching write_uN of that integer does; a slice
\* of exactly 16 bytes adds the sum of its two big-endian 8-byte halves.
C8_PowerOfTwoLengths ==
    /\ (Called("write") /\ Len(LastCall.arg) \in {1, 2, 4, 8}) =>
          /\ idStatus = "ok" /\ fibStatus = "ok"
          /\ idAcc = wrapping_add(idPrev, RefBE(LastCall.arg))
          /\ fibAcc = wrapping_add(fibPrev, RefBE(LastCall.arg))
          /\ MatchingWriteU(idPrev, LastCall.arg, TRUE) = Ok(idAcc)
          /\ MatchingWriteU(fibPrev, LastCall.arg, FALSE) = Ok(fibAcc)
    /\ (Called("write") /\ Len(LastCall.arg) = 16) =>
          /\ idStatus = "ok" /\ fibStatus = "ok"
          /\ idAcc = wrapping_add(idPrev,
                        wrapping_add(RefBE(SubSeq(LastCall.arg, 1, 8)),
                                     RefBE(SubSeq(LastCall.arg, 9, 16))))
          /\ fibAcc = wrapping_add(fibPrev,
                        wrapping_add(RefBE(SubSeq(LastCall.arg, 1, 8)),
                                     RefBE(SubSeq(LastCall.arg, 9, 16))))

\* C9: construction checks SHIFT = 64 - N < 64: with N = 0 it fails before
\* any write or finish runs; with 1 <= N <= 63 it succeeds and the new
\* hasher's accumulator is 0.
C9_ConstructionCheck ==
    /\ (phase # "start" /\ fibN = 0) =>
          /\ fibStatus = "assert_panic" /\ phase = "dead"
          /\ fibAcc = <<>> /\ log = <<>> /\ fibDigest = <<>>
    /\ (phase # "start" /\ fibN \in 1..63) =>
          /\ fibStatus \in {"ok", "panic"}
          /\ log = <<>> => (fibStatus = "ok" /\ fibAcc = Zero64)

C9_Witness ==
    /\ fibN = 0 /\ phase = "dead" /\ fibStatus = "assert_panic"

\* C10: the same calls applied to a fresh IdentityHasher and a fresh FibHasher
\* leave the two accumulators equal after every call, both calls completing
\* or both failing, so FibHasher<N>::finish() is
\* ((IdentityHasher::finish() * 11400714819323198485) mod 2^64) >> (64 - N).
C10_SameAccumulation ==
    (phase # "start" /\ fibStatus \in {"ok", "panic"}) =>
        /\ idAcc = fibAcc
        /\ idPrev = fibPrev
        /\ (idStatus = "ok") <=> (fibStatus = "ok")
        /\ phase = "finished" =>
              IsShiftedBy64Minus(fibDigest, RefFibProduct(idDigest), fibN)

\* Two calls made, one of them a write of a byte slice, then finish(): the
\* accumulators agree and the two digests are related as stated.
C10_Witness ==
    /\ phase = "finished" /\ Len(log) = 2
    /\ log[1].op = "write" /\ Len(log[1].arg) = 9 /\ log[2].op = "write_u16"
    /\ idAcc = fibAcc /\ idAcc # Zero64
    /\ idDigest = idAcc /\ fibDigest # idDigest
    /\ IsShiftedBy64Minus(fibDigest, RefFibProduct(idDigest), fibN)

\* ------------------------------------------------------- supporting facts
\* What write() does with the tail of an irregular length: a tail of 2..6
\* bytes panics (bytes[6] is read first), and nothing else panics when the
\* build has no overflow checks.
WritePanicsExactlyOnTails2To6 ==
    (~overflowChecks /\ Called("write")) =>
        ((idStatus = "panic") <=>
            (/\ Len(LastCall.arg) \notin {1, 2, 4, 8, 16}
             /\ Len(LastCall.arg) % 8 \in 2..6))

\* C4's sum is what the code adds exactly when the tail is empty.
IrregularSumRightOnlyWithoutTail ==
    (~overflowChecks /\ Called("write") /\ Len(LastCall.arg) \notin {1, 2, 4, 8, 16}) =>
        (C4_IrregularLengthSum <=> (Len(LastCall.arg) % 8 = 0))

\* C7 and C8 hold of every call that completes, and of every call in a build
\* without overflow checks: only the overflow panic stands against them.
C7_HoldsUnlessOverflowPanic ==
    (~overflowChecks \/ idStatus = "ok") => C7_IntSumWraps

C8_HoldsUnlessOverflowPanic ==
    (~overflowChecks \/ (idStatus = "ok" /\ fibStatus = "ok")) => C8_PowerOfTwoLengths

====
